---- MODULE Spec2Model ----
(***************************************************************************)
(* ShardingState (src/mongo/db/s/sharding_state.cpp): the initialization   *)
(* state machine of a shard server, its bootstrap procedure and the        *)
(* operations around them, executed by concurrent threads.                 *)
(***************************************************************************)
EXTENDS Bags, Integers, FiniteSets, Sequences, TLC

\* ------------------------------------------------------------------ bounds
\* The number of threads that call into the ShardingState.
NumThreads == 2

\* ------------------------------------------------------------------ values
\* ConnectionString: its type, replica-set name and member list.
SetConnStr(setName, servers) ==
    [type |-> "SET", setName |-> setName, servers |-> servers]

MasterConnStr == [type |-> "MASTER", setName |-> "", servers |-> "h1"]

NoConnStr == [type |-> "INVALID", setName |-> "", servers |-> ""]

\* ShardIdentityType: shardName, clusterId (an OID, "unset" when !isSet())
\* and the config server connection string.
Identity(name, cid, cs) ==
    [shardName |-> name, clusterId |-> cid, configsvrConnString |-> cs]

NoIdentity == Identity("?", "?", NoConnStr)

BaseIdentity == Identity("shard01", "C1", SetConnStr("cfgA", "h1,h2"))

ValidIdentities ==
    { BaseIdentity,
      Identity("shard02", "C1", SetConnStr("cfgA", "h1,h2")),
      Identity("shard01", "C2", SetConnStr("cfgA", "h1,h2")),
      Identity("shard01", "C1", SetConnStr("cfgB", "h1,h2")) }

InvalidIdentities ==
    { Identity("", "C1", SetConnStr("cfgA", "h1,h2")),
      Identity("shard01", "unset", SetConnStr("cfgA", "h1,h2")),
      Identity("shard01", "C1", MasterConnStr) }

Identities == ValidIdentities \cup InvalidIdentities

\* BSON documents that may hold a shard identity.
EmptyDoc == [kind |-> "empty", id |-> NoIdentity]

MalformedDoc == [kind |-> "malformed", id |-> NoIdentity]

IdentityDoc(id) == [kind |-> "identity", id |-> id]

OverrideDocs ==
    { EmptyDoc, MalformedDoc, IdentityDoc(BaseIdentity),
      IdentityDoc(Identity("shard01", "unset", SetConnStr("cfgA", "h1,h2"))) }

DiskDocs ==
    { EmptyDoc, MalformedDoc,
      IdentityDoc(Identity("shard02", "C2", SetConnStr("cfgA", "h1,h2"))) }

\* The connection strings a topology change can announce.
NewConnectionStrings ==
    { SetConnStr("cfgA", "h1,h3"), SetConnStr("cfgB", "h1,h3") }

\* The namespaces a migration or a movePrimary can be about.
Namespaces == {"db.a", "db.b"}

\* A registry slot that nobody holds.
NoSlot == "none"

Status(code, cause) == [code |-> code, cause |-> cause]

StatusOK == Status("OK", "")

\* ------------------------------------------------------------------- state
VARIABLES
    serverGlobalParams,           \* [clusterRole, overrideShardIdentity]
    storageGlobalParams,          \* [readOnly]
    diskDoc,                      \* the shardIdentity document on disk, EmptyDoc if none
    initializationState,          \* _initializationState (atomic)
    initializationStatus,         \* _initializationStatus
    shardName,                    \* _shardName
    clusterId,                    \* _clusterId
    configServerConnectionString, \* the shard registry's config server connection string
    globalInitCalls,              \* number of invocations of _globalInit
    rejectedInNew,                \* a call found the state kNew and its identity invalid
    hooks,                        \* which hooks are installed
    roleCalls,                    \* flags passed to the two role switches
    aborted,                      \* a failed fassert or invariant has killed the process
    calls,                        \* the calls in progress, one per busy thread (a bag)
    activeDonateChunk,            \* _activeMigrationsRegistry: the donation registered
    activeReceiveChunk,           \* _activeMigrationsRegistry: the receipt registered
    activeMovePrimary,            \* _activeMovePrimariesRegistry: the move registered
    handles,                      \* the scoped handles issued and not yet destroyed (a bag)
    outcome                       \* the call that ended in the last step, if one did

vars ==
    << serverGlobalParams, storageGlobalParams, diskDoc, initializationState,
       initializationStatus, shardName, clusterId, configServerConnectionString,
       globalInitCalls, rejectedInNew, hooks, roleCalls, aborted, calls,
       activeDonateChunk, activeReceiveChunk, activeMovePrimary, handles, outcome >>

config == << serverGlobalParams, storageGlobalParams >>

identity == << shardName, clusterId >>

collaborators == << hooks, roleCalls >>

registries ==
    << activeDonateChunk, activeReceiveChunk, activeMovePrimary, handles >>

\* A call in progress: the operation, the position of its thread, its
\* arguments (id, cs), the initialization state when
\* initializeFromShardIdentity was entered (pre), the status it is about to
\* return, the mode in which its thread holds the global lock and whether
\* its thread holds _mutex.
NewCall(op, id, cs) ==
    [op |-> op, pc |-> "start", id |-> id, cs |-> cs, pre |-> "-",
     status |-> StatusOK, lock |-> "none", mutex |-> FALSE]

\* How a call ended: the call, the position it ended at (pc), the mode in
\* which its thread held the global lock there (lock) and the one in which it
\* holds it once the operation has returned (after), the status returned
\* (code "Abort" when the process was terminated instead) and the value
\* returned with it.
NoOutcome ==
    [op |-> "none", pc |-> "-", id |-> NoIdentity, cs |-> NoConnStr, pre |-> "-",
     lock |-> "none", after |-> "none", status |-> StatusOK, value |-> ""]

\* The mode in which the thread of c holds the global lock when c has
\* returned status. Bootstrap takes its locks in scopes that end before it
\* returns (lines 285-293, 328-333 and 354-362), on return true as on return
\* of a failure; no other operation takes or releases the global lock.
LockAfter(c, status) ==
    IF c.op = "initializeShardingAwarenessIfNeeded" THEN "none" ELSE c.lock

Result(c, status, value) ==
    [op |-> c.op, pc |-> c.pc, id |-> c.id, cs |-> c.cs, pre |-> c.pre,
     lock |-> c.lock, after |-> LockAfter(c, status), status |-> status,
     value |-> value]

Busy == BagToSet(calls)

\* The calls in progress other than c.
Others(c) == calls (-) SetToBag({c})

\* ShardingState::ShardingState()
Init ==
    /\ serverGlobalParams \in
         [clusterRole : {"ShardServer", "None"}, overrideShardIdentity : OverrideDocs]
    /\ storageGlobalParams \in [readOnly : BOOLEAN]
    /\ diskDoc \in DiskDocs
    /\ initializationState = "kNew"
    /\ initializationStatus = Status("InternalError", "")
    /\ shardName = ""
    /\ clusterId = "unset"
    /\ configServerConnectionString = NoConnStr
    /\ globalInitCalls = 0
    /\ rejectedInNew = FALSE
    /\ hooks = [shardedConnectionInfo |-> FALSE, synchronousConfigChange |-> FALSE,
                asynchronousConfigChange |-> FALSE]
    /\ roleCalls = [catalogCacheLoader |-> << >>, chunkSplitter |-> << >>]
    /\ aborted = FALSE
    /\ calls = EmptyBag
    /\ activeDonateChunk = NoSlot
    /\ activeReceiveChunk = NoSlot
    /\ activeMovePrimary = NoSlot
    /\ handles = EmptyBag
    /\ outcome = NoOutcome

\* --------------------------------------------------------- pure operations

\* A faulty enabled: it tests for the wrong state.
enabled_TestsWrongState == initializationState = "kError"

\* ShardingState::enabled
enabled == initializationState = "kInitialized"


\* A faulty canAcceptShardedCommands: it looks at the state before the role.
canAcceptShardedCommands_StateFirst ==
    IF initializationState # "kInitialized"
      THEN Status("ShardingStateNotInitialized", "")
      ELSE IF serverGlobalParams.clusterRole # "ShardServer"
             THEN Status("NoShardingEnabled", "")
             ELSE StatusOK

\* ShardingState::canAcceptShardedCommands
canAcceptShardedCommands ==
    IF serverGlobalParams.clusterRole # "ShardServer"
      THEN Status("NoShardingEnabled", "")
      ELSE IF ~enabled
             THEN Status("ShardingStateNotInitialized", "")
             ELSE StatusOK

\* ShardIdentityType::validate: the connection string names a replica set,
\* the shard name is not empty, the cluster id is set.
validate(id) ==
    IF id.configsvrConnString.type # "SET"
      THEN Status("UnsupportedFormat", "")
      ELSE IF id.shardName = "" \/ id.clusterId = "unset"
             THEN Status("NoSuchKey", "")
             ELSE StatusOK

\* ShardIdentityType::fromBSON
fromBSON(doc) ==
    IF doc.kind = "identity"
      THEN [status |-> StatusOK, value |-> doc.id]
      ELSE [status |-> Status("NoSuchKey", ""), value |-> NoIdentity]

\* BSONObj::isEmpty
isEmpty(doc) == doc.kind = "empty"


\* A faulty comparison with the stored identity: the stored shard name is
\* compared with the cluster id given.
CheckAgainstInitialized_WrongField(id) ==
    IF shardName = "" THEN "invariant"
    ELSE IF shardName # id.clusterId THEN "fassert40372"
    ELSE IF configServerConnectionString.type # "SET" THEN "invariant"
    ELSE IF configServerConnectionString.setName # id.configsvrConnString.setName
      THEN "fassert40373"
    ELSE IF clusterId = "unset" THEN "invariant"
    ELSE IF clusterId # id.clusterId THEN "fassert40374"
    ELSE "none"

\* A faulty comparison with the stored identity: the cluster id is not
\* compared.
CheckAgainstInitialized_NoClusterId(id) ==
    IF shardName = "" THEN "invariant"
    ELSE IF shardName # id.shardName THEN "fassert40372"
    ELSE IF configServerConnectionString.type # "SET" THEN "invariant"
    ELSE IF configServerConnectionString.setName # id.configsvrConnString.setName
      THEN "fassert40373"
    ELSE "none"

\* initializeFromShardIdentity, the branch taken when enabled(): the
\* invariant or fassert that fails, "none" if the identity matches.
CheckAgainstInitialized(id) ==
    IF shardName = "" THEN "invariant"
    ELSE IF shardName # id.shardName THEN "fassert40372"
    ELSE IF configServerConnectionString.type # "SET" THEN "invariant"
    ELSE IF configServerConnectionString.setName # id.configsvrConnString.setName
      THEN "fassert40373"
    ELSE IF clusterId = "unset" THEN "invariant"
    ELSE IF clusterId # id.clusterId THEN "fassert40374"
    ELSE "none"


\* A faulty status in state kError: the kept failure itself.
ManualInterventionStatus_KeptFailure == initializationStatus

\* initializeFromShardIdentity, the status returned in state kError.
ManualInterventionStatus ==
    Status("ManualInterventionRequired", initializationStatus.code)

\* ---------------------------------------------------------------- locking
\* The lock manager: a thread may take the global lock in mode X when none of
\* the other threads holds it, in an intent mode when none of them holds X.
CanLock(others, mode) ==
    IF mode = "X"
      THEN \A d \in BagToSet(others) : d.lock = "none"
      ELSE \A d \in BagToSet(others) : d.lock # "X"


\* A faulty _mutex: it excludes nobody.
MutexFree_NoExclusion == TRUE

\* stdx::mutex: _mutex is free.
MutexFree == \A d \in Busy : ~d.mutex

Running == ~aborted

\* A thread is free to make a call.
IdleThread == Running /\ BagCardinality(calls) < NumThreads

\* A failed invariant() or fassert() in call c terminates the process and
\* with it every thread.
Abort(c, code) ==
    /\ aborted' = TRUE
    /\ outcome' = Result(c, Status("Abort", code), "")
    /\ calls' = EmptyBag
    /\ UNCHANGED << config, diskDoc, initializationState, initializationStatus,
                    identity, configServerConnectionString, globalInitCalls,
                    collaborators, registries, rejectedInNew >>

\* The call c returns, the other calls in progress being others; what its
\* thread has locked goes out of scope. No operation of the initialization
\* state machine touches the registries. A return from the entry of
\* initializeFromShardIdentity is the return of lines 184-187.
Return(others, c, status, value) ==
    /\ calls' = others
    /\ outcome' = Result(c, status, value)
    /\ rejectedInNew' = (rejectedInNew \/ (c.pc = "ifsi_entry" /\ c.pre = "kNew"))
    /\ UNCHANGED registries

\* The call c goes on as d, the other calls in progress being others.
Goto(others, d) ==
    /\ calls' = others (+) SetToBag({d})
    /\ outcome' = NoOutcome
    /\ UNCHANGED << registries, rejectedInNew >>


\* A faulty return to bootstrap: the status of initializeFromShardIdentity is
\* not looked at.
ReturnFromInitialize_AlwaysTrue(c, status) ==
    Return(Others(c), c, status,
           IF c.op = "initializeShardingAwarenessIfNeeded" THEN "true" ELSE "")

\* initializeFromShardIdentity returns status to its caller: bootstrap turns
\* OK into true (lines 294, 362) and passes a failure on (lines 291, 359).
ReturnFromInitialize(c, status) ==
    Return(Others(c), c, status,
           IF c.op = "initializeShardingAwarenessIfNeeded" /\ status.code = "OK"
             THEN "true" ELSE "")


\* ------------------------------------------- initializeFromShardIdentity
\* A faulty entry: a validation failure is kept as a failed initialization.
EnterInitialize_RejectionIsKept(others, c, mode) ==
    IF serverGlobalParams.clusterRole # "ShardServer" \/ mode = "none"
      THEN Abort([c EXCEPT !.pc = "ifsi_entry", !.lock = mode], "invariant")
      ELSE /\ IF validate(c.id).code # "OK"
                THEN /\ Return(others, [c EXCEPT !.pc = "ifsi_entry", !.lock = mode],
                            validate(c.id), "")
                     /\ initializationState' =
                          IF initializationState = "kNew" THEN "kError"
                          ELSE initializationState
                ELSE /\ Goto(others, [c EXCEPT !.pc = "ifsi_lock", !.lock = mode])
                     /\ UNCHANGED initializationState
           /\ UNCHANGED << config, diskDoc, initializationStatus, identity,
                           configServerConnectionString, globalInitCalls,
                           collaborators, aborted >>

\* Lines 178-187, entered for call c with the global lock taken in the given
\* mode, the other calls in progress being others: the invariants on the
\* caller, then the validation, which reads nothing shared.
EnterInitialize(others, c, mode) ==
    IF serverGlobalParams.clusterRole # "ShardServer" \/ mode = "none"
      THEN Abort([c EXCEPT !.pc = "ifsi_entry", !.lock = mode], "invariant")
      ELSE /\ IF validate(c.id).code # "OK"
                THEN Return(others, [c EXCEPT !.pc = "ifsi_entry", !.lock = mode],
                            validate(c.id), "")
                ELSE Goto(others, [c EXCEPT !.pc = "ifsi_lock", !.lock = mode])
           /\ UNCHANGED << config, diskDoc, initializationState,
                           initializationStatus, identity,
                           configServerConnectionString, globalInitCalls,
                           collaborators, aborted >>

\* The observer of a write of the shardIdentity document calls
\* initializeFromShardIdentity with the written identity, holding the global
\* lock in an intent mode. There are no writes in read-only mode, and a
\* server given an override outside read-only mode does not start.
Call_initializeFromShardIdentity ==
    /\ IdleThread
    /\ ~storageGlobalParams.readOnly
    /\ isEmpty(serverGlobalParams.overrideShardIdentity)
    /\ CanLock(calls, "IX")
    /\ \E id \in Identities :
         EnterInitialize(calls,
                         [NewCall("initializeFromShardIdentity", id, NoConnStr)
                            EXCEPT !.pre = initializationState],
                         "IX")

\* Lines 191-220: takes _mutex; already initialized: compares and returns;
\* kError: returns ManualInterventionRequired; otherwise adds the
\* ShardedConnectionInfo hook and invokes _globalInit, which runs while
\* _mutex is held.
IFSI_Lock(c) ==
    /\ Running /\ c.pc = "ifsi_lock"
    /\ MutexFree
    /\ IF enabled
         THEN IF CheckAgainstInitialized(c.id) # "none"
                THEN Abort(c, CheckAgainstInitialized(c.id))
                ELSE /\ ReturnFromInitialize(c, StatusOK)
                     /\ UNCHANGED << config, diskDoc, initializationState,
                                     initializationStatus, identity,
                                     configServerConnectionString, globalInitCalls,
                                     collaborators, aborted >>
         ELSE IF initializationState = "kError"
                THEN /\ ReturnFromInitialize(c, ManualInterventionStatus)
                     /\ UNCHANGED << config, diskDoc, initializationState,
                                     initializationStatus, identity,
                                     configServerConnectionString, globalInitCalls,
                                     collaborators, aborted >>
                ELSE /\ hooks' = [hooks EXCEPT !.shardedConnectionInfo = TRUE]
                     /\ globalInitCalls' = globalInitCalls + 1
                     /\ Goto(Others(c), [c EXCEPT !.pc = "in_globalInit", !.mutex = TRUE])
                     /\ UNCHANGED << config, diskDoc, initializationState,
                                     initializationStatus, identity,
                                     configServerConnectionString, roleCalls,
                                     aborted >>

\* A faulty propagation of the role: the chunk splitter is told whether the
\* node is primary, not whether it is standalone or primary.
GlobalInit_ReturnsOK_SplitterGetsPrimary(c) ==
    /\ Running /\ c.pc = "in_globalInit"
    /\ configServerConnectionString' = c.id.configsvrConnString
    /\ hooks' = [hooks EXCEPT !.synchronousConfigChange = TRUE,
                              !.asynchronousConfigChange = TRUE]
    /\ \E isReplSet \in BOOLEAN, isPrimary \in BOOLEAN :
         LET isStandaloneOrPrimary == ~isReplSet \/ isPrimary
         IN  roleCalls' =
               [catalogCacheLoader |->
                  Append(roleCalls.catalogCacheLoader, isStandaloneOrPrimary),
                chunkSplitter |->
                  Append(roleCalls.chunkSplitter, isPrimary)]
    /\ Goto(Others(c), [c EXCEPT !.pc = "ifsi_setInitialized", !.status = StatusOK])
    /\ UNCHANGED << config, diskDoc, initializationState, initializationStatus,
                    identity, globalInitCalls, aborted >>

\* initializeGlobalShardingStateForMongod returns OK, having initialized the
\* grid with the given config server connection string. Lines 221-239: the
\* replica set change hooks are installed and the role is passed to the
\* catalog cache loader and to the chunk splitter.
GlobalInit_ReturnsOK(c) ==
    /\ Running /\ c.pc = "in_globalInit"
    /\ configServerConnectionString' = c.id.configsvrConnString
    /\ hooks' = [hooks EXCEPT !.synchronousConfigChange = TRUE,
                              !.asynchronousConfigChange = TRUE]
    /\ \E isReplSet \in BOOLEAN, isPrimary \in BOOLEAN :
         LET isStandaloneOrPrimary == ~isReplSet \/ isPrimary
         IN  roleCalls' =
               [catalogCacheLoader |->
                  Append(roleCalls.catalogCacheLoader, isStandaloneOrPrimary),
                chunkSplitter |->
                  Append(roleCalls.chunkSplitter, isStandaloneOrPrimary)]
    /\ Goto(Others(c), [c EXCEPT !.pc = "ifsi_setInitialized", !.status = StatusOK])
    /\ UNCHANGED << config, diskDoc, initializationState, initializationStatus,
                    identity, globalInitCalls, aborted >>

\* Line 240
IFSI_SetInitialized(c) ==
    /\ Running /\ c.pc = "ifsi_setInitialized"
    /\ initializationState' = "kInitialized"
    /\ Goto(Others(c), [c EXCEPT !.pc = "ifsi_store"])
    /\ UNCHANGED << config, diskDoc, initializationStatus, identity,
                    configServerConnectionString, globalInitCalls, collaborators,
                    aborted >>

\* _globalInit returns a failure. Lines 241-245: the failure is kept and the
\* state becomes kError.
GlobalInit_ReturnsFailure(c) ==
    /\ Running /\ c.pc = "in_globalInit"
    /\ initializationStatus' = Status("HostUnreachable", "")
    /\ initializationState' = "kError"
    /\ Goto(Others(c), [c EXCEPT !.pc = "ifsi_store",
                                 !.status = Status("HostUnreachable", "")])
    /\ UNCHANGED << config, diskDoc, identity, configServerConnectionString,
                    globalInitCalls, collaborators, aborted >>

\* Lines 246-249: after either branch the shard name and the cluster id are
\* stored and the status of _globalInit is returned; _mutex is released.
IFSI_Store(c) ==
    /\ Running /\ c.pc = "ifsi_store"
    /\ shardName' = c.id.shardName
    /\ clusterId' = c.id.clusterId
    /\ ReturnFromInitialize(c, c.status)
    /\ UNCHANGED << config, diskDoc, initializationState, initializationStatus,
                    configServerConnectionString, globalInitCalls, collaborators,
                    aborted >>

\* A faulty catch: the failure thrown is returned but not kept.
GlobalInit_Throws_FailureNotKept(c) ==
    /\ Running /\ c.pc = "in_globalInit"
    /\ initializationState' = "kError"
    /\ ReturnFromInitialize(c, Status("ExceededTimeLimit", ""))
    /\ UNCHANGED << config, diskDoc, initializationStatus, identity,
                    configServerConnectionString, globalInitCalls, collaborators,
                    aborted >>

\* _globalInit throws a DBException. Lines 250-255: the failure is kept, the
\* state becomes kError and the failure is returned.
GlobalInit_Throws(c) ==
    /\ Running /\ c.pc = "in_globalInit"
    /\ initializationStatus' = Status("ExceededTimeLimit", "")
    /\ initializationState' = "kError"
    /\ ReturnFromInitialize(c, Status("ExceededTimeLimit", ""))
    /\ UNCHANGED << config, diskDoc, identity, configServerConnectionString,
                    globalInitCalls, collaborators, aborted >>

\* ------------------------------------ initializeShardingAwarenessIfNeeded
Decision(kind, status, value, id) ==
    [kind |-> kind, status |-> status, value |-> value, id |-> id]


\* A faulty decision on the options: an override given to a server that is
\* not a shard server is tolerated in read-only mode.
OptionsDecision_OverrideTolerated ==
    LET override == serverGlobalParams.overrideShardIdentity
        sw == fromBSON(override)
    IN  IF storageGlobalParams.readOnly
          THEN IF serverGlobalParams.clusterRole = "ShardServer"
                 THEN IF isEmpty(override)
                        THEN Decision("return", Status("InvalidOptions", ""), "", NoIdentity)
                        ELSE IF sw.status.code # "OK"
                               THEN Decision("return", sw.status, "", NoIdentity)
                               ELSE Decision("initialize", StatusOK, "", sw.value)
                 ELSE Decision("return", StatusOK, "false", NoIdentity)
          ELSE IF ~isEmpty(override)
                 THEN Decision("return", Status("InvalidOptions", ""), "", NoIdentity)
                 ELSE Decision("lookup", StatusOK, "", NoIdentity)

\* Lines 273-322: what the options alone decide: return a result,
\* initialize from the override, or go on to read the disk.
OptionsDecision ==
    LET override == serverGlobalParams.overrideShardIdentity
        sw == fromBSON(override)
    IN  IF storageGlobalParams.readOnly
          THEN IF serverGlobalParams.clusterRole = "ShardServer"
                 THEN IF isEmpty(override)
                        THEN Decision("return", Status("InvalidOptions", ""), "", NoIdentity)
                        ELSE IF sw.status.code # "OK"
                               THEN Decision("return", sw.status, "", NoIdentity)
                               ELSE Decision("initialize", StatusOK, "", sw.value)
                 ELSE IF ~isEmpty(override)
                        THEN Decision("return", Status("InvalidOptions", ""), "", NoIdentity)
                        ELSE Decision("return", StatusOK, "false", NoIdentity)
          ELSE IF ~isEmpty(override)
                 THEN Decision("return", Status("InvalidOptions", ""), "", NoIdentity)
                 ELSE Decision("lookup", StatusOK, "", NoIdentity)


\* A faulty decision on the persisted document: the cluster role is not
\* looked at.
DiskDecision_AnyRole(foundShardIdentity, shardIdentityBSON) ==
    LET sw == fromBSON(shardIdentityBSON)
    IN  IF ~foundShardIdentity
          THEN Decision("return", StatusOK, "false", NoIdentity)
          ELSE IF sw.status.code # "OK"
                 THEN Decision("return", sw.status, "", NoIdentity)
                 ELSE Decision("initialize", StatusOK, "", sw.value)

\* Lines 338-372: what is decided once the disk has been read.
DiskDecision(foundShardIdentity, shardIdentityBSON) ==
    LET sw == fromBSON(shardIdentityBSON)
    IN  IF serverGlobalParams.clusterRole = "ShardServer"
          THEN IF ~foundShardIdentity
                 THEN Decision("return", StatusOK, "false", NoIdentity)
                 ELSE IF sw.status.code # "OK"
                        THEN Decision("return", sw.status, "", NoIdentity)
                        ELSE Decision("initialize", StatusOK, "", sw.value)
          ELSE Decision("return", StatusOK, "false", NoIdentity)

\* Helpers::findOne on the shardIdentity document.
findOne == [found |-> ~isEmpty(diskDoc), result |-> diskDoc]

\* The bootstrap call c acts on decision d.
Decide(others, c, d) ==
    IF d.kind = "return"
      THEN Return(others, c, d.status, d.value)
      ELSE Goto(others,
                [c EXCEPT !.pc = IF d.kind = "initialize" THEN "isain_lock"
                                 ELSE "isain_lookup",
                          !.id = d.id])

\* The modes in which the thread that calls bootstrap may hold the global
\* lock when it does.
EntryLocks == {"none", "IS"}

\* Lines 268-322: the invariant of line 269 on the lock state of the caller,
\* then the decision on the options.
Call_initializeShardingAwarenessIfNeeded ==
    /\ IdleThread
    /\ \E held \in EntryLocks :
         LET c == [NewCall("initializeShardingAwarenessIfNeeded", NoIdentity, NoConnStr)
                     EXCEPT !.lock = held]
         IN  /\ held = "none" \/ CanLock(calls, held)
             /\ IF held # "none"
                  THEN Abort(c, "invariant")
                  ELSE /\ Decide(calls, c, OptionsDecision)
                       /\ UNCHANGED << config, diskDoc, initializationState,
                                       initializationStatus, identity,
                                       configServerConnectionString,
                                       globalInitCalls, collaborators, aborted >>

\* Lines 324-372: reads the shardIdentity document under an intent lock; a
\* DBException of the read is returned as it is.
ISAIN_Lookup(c) ==
    /\ Running /\ c.pc = "isain_lookup"
    /\ CanLock(Others(c), "IS")
    /\ \E threw \in BOOLEAN :
         IF threw
           THEN Return(Others(c), c, Status("Interrupted", ""), "")
           ELSE Decide(Others(c), c, DiskDecision(findOne.found, findOne.result))
    /\ UNCHANGED << config, diskDoc, initializationState, initializationStatus,
                    identity, configServerConnectionString, globalInitCalls,
                    collaborators, aborted >>

\* A faulty lock of bootstrap: the global lock in an intent mode.
ISAIN_Lock_IntentLock(c) ==
    /\ Running /\ c.pc = "isain_lock"
    /\ CanLock(Others(c), "IX")
    /\ EnterInitialize(Others(c), [c EXCEPT !.pre = initializationState], "IX")

\* Lines 287-289 and 356-357: Lock::GlobalWrite, then
\* initializeFromShardIdentity.
ISAIN_Lock(c) ==
    /\ Running /\ c.pc = "isain_lock"
    /\ CanLock(Others(c), "X")
    /\ EnterInitialize(Others(c), [c EXCEPT !.pre = initializationState], "X")


\* --------------------------------------------------------- other operations
\* ShardingState::canAcceptShardedCommands, a lock-free read.
Do_canAcceptShardedCommands ==
    /\ IdleThread
    /\ Return(calls, NewCall("canAcceptShardedCommands", NoIdentity, NoConnStr),
              canAcceptShardedCommands, "")
    /\ UNCHANGED << config, diskDoc, initializationState, initializationStatus,
                    identity, configServerConnectionString, globalInitCalls,
                    collaborators, aborted >>

\* ShardingState::getShardName, line 139: invariant(enabled()).
Call_getShardName ==
    /\ IdleThread
    /\ LET c == NewCall("getShardName", NoIdentity, NoConnStr)
       IN  IF ~enabled
             THEN Abort(c, "invariant")
             ELSE /\ Goto(calls, [c EXCEPT !.pc = "gsn_lock"])
                  /\ UNCHANGED << config, diskDoc, initializationState,
                                  initializationStatus, identity,
                                  configServerConnectionString, globalInitCalls,
                                  collaborators, aborted >>

\* ShardingState::getShardName, lines 140-141: reads _shardName under _mutex.
GSN_Read(c) ==
    /\ Running /\ c.pc = "gsn_lock"
    /\ MutexFree
    /\ Return(Others(c), c, StatusOK, shardName)
    /\ UNCHANGED << config, diskDoc, initializationState, initializationStatus,
                    identity, configServerConnectionString, globalInitCalls,
                    collaborators, aborted >>

\* ShardingState::shutDown, lines 145-146: takes _mutex and reads the state.
Call_shutDown ==
    /\ IdleThread
    /\ MutexFree
    /\ LET c == NewCall("shutDown", NoIdentity, NoConnStr)
       IN  IF enabled
             THEN Goto(calls, [c EXCEPT !.pc = "sd_join", !.mutex = TRUE])
             ELSE Return(calls, c, StatusOK, "")
    /\ UNCHANGED << config, diskDoc, initializationState, initializationStatus,
                    identity, configServerConnectionString, globalInitCalls,
                    collaborators, aborted >>


\* A faulty shutDown: it puts the state back to kNew.
SD_Join_ResetsState(c) ==
    /\ Running /\ c.pc = "sd_join"
    /\ initializationState' = "kNew"
    /\ Return(Others(c), c, StatusOK, "")
    /\ UNCHANGED << config, diskDoc, initializationStatus, identity,
                    configServerConnectionString, globalInitCalls, collaborators,
                    aborted >>

\* ShardingState::shutDown, lines 147-149: stops and joins the executor pool
\* and the catalog client while _mutex is held.
SD_Join(c) ==
    /\ Running /\ c.pc = "sd_join"
    /\ Return(Others(c), c, StatusOK, "")
    /\ UNCHANGED << config, diskDoc, initializationState, initializationStatus,
                    identity, configServerConnectionString, globalInitCalls,
                    collaborators, aborted >>

\* A faulty updateShardIdentityConfigStringCB: the set name is not looked at.
Call_updateShardIdentityConfigStringCB_AnySet ==
    /\ IdleThread
    /\ hooks.asynchronousConfigChange
    /\ \E cs \in NewConnectionStrings :
         Goto(calls, [NewCall("updateShardIdentityConfigStringCB", NoIdentity, cs)
                        EXCEPT !.pc = "usics_update"])
    /\ UNCHANGED << config, diskDoc, initializationState, initializationStatus,
                    identity, configServerConnectionString, globalInitCalls,
                    collaborators, aborted >>

\* updateShardIdentityConfigStringCB, lines 82-86: a change of a set that is
\* not the config server's is ignored.
Call_updateShardIdentityConfigStringCB ==
    /\ IdleThread
    /\ hooks.asynchronousConfigChange
    /\ \E cs \in NewConnectionStrings :
         LET c == NewCall("updateShardIdentityConfigStringCB", NoIdentity, cs)
         IN  IF configServerConnectionString.setName # cs.setName
               THEN Return(calls, c, StatusOK, "ignored")
               ELSE Goto(calls, [c EXCEPT !.pc = "usics_update"])
    /\ UNCHANGED << config, diskDoc, initializationState, initializationStatus,
                    identity, configServerConnectionString, globalInitCalls,
                    collaborators, aborted >>

\* A direct call of ShardingState::updateShardIdentityConfigString.
Call_updateShardIdentityConfigString ==
    /\ IdleThread
    /\ \E cs \in NewConnectionStrings :
         Goto(calls, [NewCall("updateShardIdentityConfigString", NoIdentity, cs)
                        EXCEPT !.pc = "usics_update"])
    /\ UNCHANGED << config, diskDoc, initializationState, initializationStatus,
                    identity, configServerConnectionString, globalInitCalls,
                    collaborators, aborted >>

\* ShardIdentityType::createConfigServerUpdateObject applied by update():
\* $set of the connection string field of the document.
UpdatedDoc(doc, cs) ==
    IF doc.kind = "identity"
      THEN IdentityDoc([doc.id EXCEPT !.configsvrConnString = cs])
      ELSE doc

\* A faulty updateShardIdentityConfigString: no match is an error.
USICS_Update_NoMatchIsError(c) ==
    /\ Running /\ c.pc = "usics_update"
    /\ CanLock(Others(c), "IX")
    /\ \E threw \in BOOLEAN :
         IF threw
           THEN /\ Return(Others(c), c, Status("NotMaster", ""), "")
                /\ UNCHANGED diskDoc
           ELSE /\ diskDoc' = IF isEmpty(diskDoc) THEN diskDoc
                              ELSE UpdatedDoc(diskDoc, c.cs)
                /\ Return(Others(c), c,
                          IF isEmpty(diskDoc) THEN Status("NoMatchingDocument", "")
                          ELSE StatusOK,
                          IF isEmpty(diskDoc) THEN "numMatched=0" ELSE "numMatched=1")
    /\ UNCHANGED << config, initializationState, initializationStatus, identity,
                    configServerConnectionString, globalInitCalls, collaborators,
                    aborted >>

\* updateShardIdentityConfigString, lines 431-455: the update runs under a
\* database X lock; a DBException is returned, no match is tolerated.
USICS_Update(c) ==
    /\ Running /\ c.pc = "usics_update"
    /\ CanLock(Others(c), "IX")
    /\ \E threw \in BOOLEAN :
         IF threw
           THEN /\ Return(Others(c), c, Status("NotMaster", ""), "")
                /\ UNCHANGED diskDoc
           ELSE /\ diskDoc' = IF isEmpty(diskDoc) THEN diskDoc
                              ELSE UpdatedDoc(diskDoc, c.cs)
                /\ Return(Others(c), c, StatusOK,
                          IF isEmpty(diskDoc) THEN "numMatched=0" ELSE "numMatched=1")
    /\ UNCHANGED << config, initializationState, initializationStatus, identity,
                    configServerConnectionString, globalInitCalls, collaborators,
                    aborted >>

\* ------------------------------------------------------------- registries
\* The operations of the two registries act on the registries alone.
shardingState ==
    << serverGlobalParams, storageGlobalParams, diskDoc, initializationState,
       initializationStatus, shardName, clusterId, configServerConnectionString,
       globalInitCalls, rejectedInNew, hooks, roleCalls, aborted, calls >>

\* A scoped handle on the slot of the given kind.
Handle(kind, ns) == [kind |-> kind, ns |-> ns]

\* The admission policy of a registry slot, applied under the registry's own
\* lock: a slot that is held refuses with ConflictingOperationInProgress,
\* naming what holds it; a free slot is taken.
Register(slot, ns) ==
    IF slot # NoSlot
      THEN [status |-> Status("ConflictingOperationInProgress", slot), slot |-> slot]
      ELSE [status |-> StatusOK, slot |-> ns]

\* What a registration returns to its caller: the status and, on success,
\* a scoped handle.
Registered(op, kind, ns, r) ==
    /\ outcome' = Result(NewCall(op, NoIdentity, NoConnStr), r.status, ns)
    /\ handles' = IF r.status.code = "OK"
                    THEN handles (+) SetToBag({Handle(kind, ns)})
                    ELSE handles

\* A faulty registerDonateChunk: it is passed on to the receive slot.
registerDonateChunk_ReceiveSlot ==
    /\ Running
    /\ \E ns \in Namespaces :
         LET r == Register(activeReceiveChunk, ns)
         IN  /\ activeReceiveChunk' = r.slot
             /\ Registered("registerDonateChunk", "donateChunk", ns, r)
    /\ UNCHANGED << shardingState, activeDonateChunk, activeMovePrimary >>

\* ShardingState::registerDonateChunk
registerDonateChunk ==
    /\ Running
    /\ \E ns \in Namespaces :
         LET r == Register(activeDonateChunk, ns)
         IN  /\ activeDonateChunk' = r.slot
             /\ Registered("registerDonateChunk", "donateChunk", ns, r)
    /\ UNCHANGED << shardingState, activeReceiveChunk, activeMovePrimary >>

\* A faulty registerReceiveChunk: it is refused also while a donation is
\* registered.
registerReceiveChunk_RefusedByDonation ==
    /\ Running
    /\ \E ns \in Namespaces :
         LET r == IF activeDonateChunk # NoSlot
                    THEN Register(activeDonateChunk, ns)
                    ELSE Register(activeReceiveChunk, ns)
         IN  /\ activeReceiveChunk' = IF activeDonateChunk # NoSlot
                                        THEN activeReceiveChunk ELSE r.slot
             /\ Registered("registerReceiveChunk", "receiveChunk", ns, r)
    /\ UNCHANGED << shardingState, activeDonateChunk, activeMovePrimary >>

\* ShardingState::registerReceiveChunk
registerReceiveChunk ==
    /\ Running
    /\ \E ns \in Namespaces :
         LET r == Register(activeReceiveChunk, ns)
         IN  /\ activeReceiveChunk' = r.slot
             /\ Registered("registerReceiveChunk", "receiveChunk", ns, r)
    /\ UNCHANGED << shardingState, activeDonateChunk, activeMovePrimary >>

\* ShardingState::registerMovePrimary
registerMovePrimary ==
    /\ Running
    /\ \E ns \in Namespaces :
         LET r == Register(activeMovePrimary, ns)
         IN  /\ activeMovePrimary' = r.slot
             /\ Registered("registerMovePrimary", "movePrimary", ns, r)
    /\ UNCHANGED << shardingState, activeDonateChunk, activeReceiveChunk >>

\* ShardingState::getActiveDonateChunkNss and getActiveMovePrimaryNss
getActiveNss ==
    /\ Running
    /\ \E op \in {"getActiveDonateChunkNss", "getActiveMovePrimaryNss"} :
         outcome' = Result(NewCall(op, NoIdentity, NoConnStr), StatusOK,
                           IF op = "getActiveDonateChunkNss"
                             THEN activeDonateChunk ELSE activeMovePrimary)
    /\ UNCHANGED << shardingState, registries >>

\* A scoped handle is destroyed, on whatever path its holder leaves: the
\* slot of its kind is freed.
DestroyHandle ==
    /\ Running
    /\ \E h \in BagToSet(handles) :
         /\ handles' = handles (-) SetToBag({h})
         /\ activeDonateChunk' =
              IF h.kind = "donateChunk" THEN NoSlot ELSE activeDonateChunk
         /\ activeReceiveChunk' =
              IF h.kind = "receiveChunk" THEN NoSlot ELSE activeReceiveChunk
         /\ activeMovePrimary' =
              IF h.kind = "movePrimary" THEN NoSlot ELSE activeMovePrimary
         /\ outcome' = Result(NewCall("~" \o h.kind, NoIdentity, NoConnStr),
                              StatusOK, h.ns)
    /\ UNCHANGED shardingState

RegistryNext ==
    \/ registerDonateChunk
    \/ registerReceiveChunk
    \/ registerMovePrimary
    \/ getActiveNss
    \/ DestroyHandle

\* The registries of a ShardingState, used by concurrent callers; a
\* registration is one step, taken under the registry's own lock.
RegistrySpec == Init /\ [][RegistryNext]_vars

\* ------------------------------------------------------------ specification
Next ==
    \/ Call_initializeFromShardIdentity
    \/ Call_initializeShardingAwarenessIfNeeded
    \/ Do_canAcceptShardedCommands
    \/ Call_getShardName
    \/ Call_shutDown
    \/ Call_updateShardIdentityConfigStringCB
    \/ Call_updateShardIdentityConfigString
    \/ \E c \in Busy : IFSI_Lock(c)
    \/ \E c \in Busy : GlobalInit_ReturnsOK(c)
    \/ \E c \in Busy : GlobalInit_ReturnsFailure(c)
    \/ \E c \in Busy : GlobalInit_Throws(c)
    \/ \E c \in Busy : IFSI_SetInitialized(c)
    \/ \E c \in Busy : IFSI_Store(c)
    \/ \E c \in Busy : ISAIN_Lookup(c)
    \/ \E c \in Busy : ISAIN_Lock(c)
    \/ \E c \in Busy : GSN_Read(c)
    \/ \E c \in Busy : SD_Join(c)
    \/ \E c \in Busy : USICS_Update(c)

Spec == Init /\ [][Next]_vars

\* ------------------------------------------------------------------ claims
\* A call that ended in the last step was a call of
\* initializeFromShardIdentity, made directly or by the bootstrap.
InitializeEnded(o) == o.pre # "-"

\* C1 as stated: once _globalInit has failed (the state is kError), every
\* later call of initializeFromShardIdentity, whatever identity it is given,
\* valid or not, returns ManualInterventionRequired, and _globalInit is not
\* invoked again.
C1_AnyIdentityGetsManualIntervention ==
    /\ outcome.pre = "kError" => outcome.status.code = "ManualInterventionRequired"
    /\ initializationState = "kError" =>
         /\ globalInitCalls = 1
         /\ \A c \in Busy : c.pc # "in_globalInit"

\* C1 as amended: once _globalInit has failed, a later call of
\* initializeFromShardIdentity returns ManualInterventionRequired, carrying
\* the kept failure, when its identity passes validation and the validation
\* error when it does not; _globalInit has been invoked once and is not
\* running.
C1_ManualInterventionAfterFailure ==
    /\ outcome.pre = "kError" =>
         IF validate(outcome.id).code = "OK"
           THEN outcome.status =
                  Status("ManualInterventionRequired", initializationStatus.code)
           ELSE outcome.status = validate(outcome.id)
    /\ initializationState = "kError" =>
         /\ globalInitCalls = 1
         /\ \A c \in Busy : c.pc # "in_globalInit"

C1_Witness ==
    /\ outcome.pre = "kError"
    /\ outcome.status.code = "ManualInterventionRequired"
    /\ outcome.status.cause = "ExceededTimeLimit"
    /\ outcome.id # BaseIdentity

\* C2: a call of initializeFromShardIdentity entered in state kInitialized
\* with the identity of the call that initialized (stored shard name and
\* cluster id, the config server connection string the grid was given)
\* returns OK and changes neither the state nor the stored identity, and
\* _globalInit has been invoked once in all.
C2_RepeatedInitializeIsIdempotent ==
    [][ ( /\ outcome'.pre = "kInitialized"
          /\ outcome'.id = Identity(shardName, clusterId, configServerConnectionString) )
        => /\ outcome'.status = StatusOK
           /\ initializationState' = "kInitialized"
           /\ UNCHANGED << initializationState, shardName, clusterId,
                           globalInitCalls >>
           /\ globalInitCalls = 1 ]_vars

C2_Witness ==
    /\ outcome.op = "initializeFromShardIdentity"
    /\ outcome.pre = "kInitialized"
    /\ outcome.id = Identity(shardName, clusterId, configServerConnectionString)
    /\ outcome.status = StatusOK
    /\ globalInitCalls = 1

\* The calls that are inside the first-time initialization of lines 217-255.
FirstTimePositions == {"in_globalInit", "ifsi_setInitialized", "ifsi_store"}

\* C3: whatever the interleaving of the calls, _globalInit is invoked at most
\* once and at most one call is ever inside the first-time initialization;
\* the state becomes kInitialized only from kNew, by the one call that
\* invoked _globalInit, and never leaves kInitialized, so that the transition
\* happens at most once; a call that did not run the first-time
\* initialization ends with what the winner left: OK or the fassert in
\* state kInitialized, ManualInterventionRequired in state kError.
C3_Inv ==
    /\ globalInitCalls <= 1
    /\ Cardinality({c \in Busy : c.pc \in FirstTimePositions}) <= 1
    /\ \A c \in Busy : c.pc \in FirstTimePositions => CopiesIn(c, calls) = 1
    /\ (InitializeEnded(outcome) /\ outcome.pc = "ifsi_lock") =>
         \/ initializationState = "kInitialized"
              /\ outcome.status.code \in {"OK", "Abort"}
         \/ initializationState = "kError"
              /\ outcome.status.code = "ManualInterventionRequired"

C3_Step ==
    /\ (initializationState # "kInitialized" /\ initializationState' = "kInitialized")
         => /\ initializationState = "kNew"
            /\ globalInitCalls = 1
            /\ \E c \in Busy : c.pc = "ifsi_setInitialized"
    /\ initializationState = "kInitialized" => initializationState' = "kInitialized"

C3_SingleWinner == []C3_Inv /\ [][C3_Step]_vars

C3_Witness ==
    /\ initializationState = "kInitialized"
    /\ outcome.pc = "ifsi_lock"
    /\ outcome.pre = "kNew"
    /\ outcome.status = StatusOK
    /\ globalInitCalls = 1

\* C4: the state changes only from kNew, and only to kInitialized or to
\* kError: whatever operation takes a step, a state that is kInitialized or
\* kError stays what it is.
C4_StateOnlyLeavesNew ==
    [][ initializationState' # initializationState =>
          /\ initializationState = "kNew"
          /\ initializationState' \in {"kInitialized", "kError"} ]_vars

C4_Witness ==
    /\ initializationState = "kInitialized"
    /\ outcome.op = "shutDown"
    /\ outcome.pc = "sd_join"

\* C5: a call of initializeFromShardIdentity entered in state kInitialized
\* with a valid identity whose shard name or cluster id differs from the
\* stored one terminates the process (a failed fassert) instead of
\* returning, and changes neither the stored shard name and cluster id nor
\* the state.
C5_MismatchIsFatal ==
    [][ ( /\ outcome'.pre = "kInitialized"
          /\ validate(outcome'.id).code = "OK"
          /\ \/ outcome'.id.shardName # shardName
             \/ outcome'.id.clusterId # clusterId )
        => /\ outcome'.status.code = "Abort"
           /\ outcome'.status.cause \in {"fassert40372", "fassert40373", "fassert40374"}
           /\ aborted'
           /\ UNCHANGED << initializationState, shardName, clusterId >> ]_vars

C5_Witness ==
    /\ outcome.pre = "kInitialized"
    /\ outcome.status = Status("Abort", "fassert40374")
    /\ outcome.id.shardName = shardName
    /\ outcome.id.clusterId # clusterId
    /\ initializationState = "kInitialized"

\* C6: in state kInitialized no step of any operation changes the stored
\* shard name or cluster id, but for the one store (lines 246-247) by which
\* the call that has just made the state kInitialized (line 240) completes,
\* before either has ever been set and while it still holds _mutex.
C6_IdentityNeverChanges ==
    [][ initializationState = "kInitialized" =>
          \/ UNCHANGED << shardName, clusterId >>
          \/ /\ shardName = "" /\ clusterId = "unset"
             /\ outcome'.pc = "ifsi_store" /\ outcome'.pre = "kNew"
             /\ outcome'.status = StatusOK
             /\ globalInitCalls = 1 ]_vars

C6_Witness ==
    /\ initializationState = "kInitialized"
    /\ shardName = "shard01" /\ clusterId = "C1"
    /\ outcome.op = "updateShardIdentityConfigStringCB"
    /\ outcome.value = "numMatched=1"
    /\ diskDoc.id.shardName = "shard02"

\* C7: canAcceptShardedCommands returns NoShardingEnabled when the cluster
\* role is not ShardServer, whatever the state; ShardingStateNotInitialized
\* when the role is ShardServer and the state is kNew or kError; OK when the
\* role is ShardServer and the state is kInitialized; and changes nothing.
C7_CanAcceptShardedCommandsTable ==
    [][ outcome'.op = "canAcceptShardedCommands" =>
          /\ outcome'.status.code =
               CASE serverGlobalParams.clusterRole # "ShardServer" -> "NoShardingEnabled"
                 [] /\ serverGlobalParams.clusterRole = "ShardServer"
                    /\ initializationState \in {"kNew", "kError"} -> "ShardingStateNotInitialized"
                 [] /\ serverGlobalParams.clusterRole = "ShardServer"
                    /\ initializationState = "kInitialized" -> "OK"
          /\ UNCHANGED << serverGlobalParams, storageGlobalParams, diskDoc,
                          initializationState, initializationStatus, shardName,
                          clusterId, configServerConnectionString, globalInitCalls,
                          hooks, roleCalls, aborted, calls >> ]_vars

C7_Witness ==
    /\ outcome.op = "canAcceptShardedCommands"
    /\ outcome.status.code = "ShardingStateNotInitialized"
    /\ initializationState = "kError"

\* What bootstrap was started with: the role, the mode and the two documents.
IsShardServer == serverGlobalParams.clusterRole = "ShardServer"

OverrideGiven == serverGlobalParams.overrideShardIdentity.kind # "empty"

PersistedFound == diskDoc.kind # "empty"

\* The rows of the decision table of initializeShardingAwarenessIfNeeded.
C8_Row ==
    CASE IsShardServer /\ storageGlobalParams.readOnly /\ ~OverrideGiven -> "InvalidOptions"
      [] IsShardServer /\ storageGlobalParams.readOnly /\ OverrideGiven -> "fromOverride"
      [] ~IsShardServer /\ storageGlobalParams.readOnly /\ OverrideGiven -> "InvalidOptions"
      [] ~IsShardServer /\ storageGlobalParams.readOnly /\ ~OverrideGiven -> "notAware"
      [] ~storageGlobalParams.readOnly /\ OverrideGiven -> "InvalidOptions"
      [] IsShardServer /\ ~storageGlobalParams.readOnly /\ ~OverrideGiven /\ PersistedFound
           -> "fromPersisted"
      [] IsShardServer /\ ~storageGlobalParams.readOnly /\ ~OverrideGiven /\ ~PersistedFound
           -> "notAware"
      [] ~IsShardServer /\ ~storageGlobalParams.readOnly /\ ~OverrideGiven -> "notAware"

\* The document a row initializes from.
C8_Document ==
    IF C8_Row = "fromOverride" THEN serverGlobalParams.overrideShardIdentity ELSE diskDoc

\* The call that ended used the identity of document doc (an update of the
\* persisted document changes its connection string only).
UsedIdentityOf(doc) ==
    /\ doc.kind = "identity"
    /\ outcome.id.shardName = doc.id.shardName
    /\ outcome.id.clusterId = doc.id.clusterId
    /\ C8_Row = "fromOverride" => outcome.id = doc.id

\* The call of initializeFromShardIdentity that ended found the state kNew
\* and its invocation of _globalInit succeeded, or found the state
\* kInitialized with the identity it was given.
C8_CallbackSucceeds ==
    \/ /\ outcome.pre = "kNew"
       /\ ~(outcome.pc = "in_globalInit")
       /\ ~(outcome.pc = "ifsi_store" /\ outcome.status.code = "HostUnreachable")
    \/ /\ outcome.pre = "kInitialized"
       /\ outcome.id.shardName = shardName
       /\ outcome.id.clusterId = clusterId
       /\ outcome.id.configsvrConnString.setName = configServerConnectionString.setName

\* C8: when initializeShardingAwarenessIfNeeded, entered with no lock held,
\* returns, its lookup of the persisted document not having thrown, the result is the one of the
\* decision table: InvalidOptions in the rows that forbid the options; OK and
\* false in the rows "not aware"; and in the rows that initialize from the
\* override or from the persisted document, given a valid identity in that
\* document and a succeeding callback, OK and true with the state
\* kInitialized and the identity of that document used.
C8_BootstrapDecisionTable ==
    ( /\ outcome.op = "initializeShardingAwarenessIfNeeded"
      /\ ~(outcome.pc = "start" /\ outcome.status.code = "Abort")
      /\ ~(outcome.pc = "isain_lookup" /\ outcome.status.code = "Interrupted") )
    => CASE C8_Row = "InvalidOptions" ->
              /\ outcome.status.code = "InvalidOptions"
              /\ outcome.value = ""
         [] C8_Row = "notAware" ->
              /\ outcome.status = StatusOK
              /\ outcome.value = "false"
         [] C8_Row \in {"fromOverride", "fromPersisted"} ->
              ( /\ C8_Document.kind = "identity"
                /\ validate(C8_Document.id).code = "OK"
                /\ C8_CallbackSucceeds )
              => /\ outcome.status = StatusOK
                 /\ outcome.value = "true"
                 /\ UsedIdentityOf(C8_Document)
                 /\ initializationState = "kInitialized"

C8_Witness ==
    /\ outcome.op = "initializeShardingAwarenessIfNeeded"
    /\ C8_Row = "fromPersisted"
    /\ outcome.pre = "kNew"
    /\ outcome.value = "true"
    /\ UsedIdentityOf(diskDoc)

\* The positions at which bootstrap returns without having called
\* initializeFromShardIdentity.
BeforeInitialize == {"start", "isain_lookup"}

\* A step of bootstrap outside initializeFromShardIdentity: it returns from
\* one of the positions before the call, or goes on to the lookup or to the
\* global lock.
C9_BootstrapStepOutsideInitialize ==
    \/ /\ outcome'.op = "initializeShardingAwarenessIfNeeded"
       /\ outcome'.pc \in BeforeInitialize
    \/ \E c \in BagToSet(calls') :
         /\ c.op = "initializeShardingAwarenessIfNeeded"
         /\ c.pc \in {"isain_lookup", "isain_lock"}
         /\ CopiesIn(c, calls') > CopiesIn(c, calls)

\* The results bootstrap returns without calling initializeFromShardIdentity.
C9_ReturnsBeforeInitialize ==
    /\ outcome.op = "initializeShardingAwarenessIfNeeded"
    /\ \/ outcome.status.code \in {"InvalidOptions", "Interrupted"}
       \/ outcome.value = "false"
       \/ C8_Row \in {"fromOverride", "fromPersisted"} /\ C8_Document.kind = "malformed"

C9_Inv ==
    /\ C9_ReturnsBeforeInitialize =>
         /\ outcome.pc \in BeforeInitialize
         /\ outcome.pre = "-"
    /\ ~IsShardServer =>
         /\ initializationState = "kNew"
         /\ shardName = "" /\ clusterId = "unset"
         /\ globalInitCalls = 0
         /\ \A c \in Busy : c.op = "initializeShardingAwarenessIfNeeded" =>
                              c.pc \in BeforeInitialize
         /\ outcome.op = "initializeShardingAwarenessIfNeeded" =>
              outcome.pc \in BeforeInitialize

\* C9: no step that bootstrap takes outside initializeFromShardIdentity
\* changes the state, the kept failure, the stored identity or the number of
\* invocations of _globalInit; every InvalidOptions result, every result
\* "not aware", the failure to parse a malformed document and the failure
\* of the lookup are returned from before the call of
\* initializeFromShardIdentity; and when the role is not ShardServer the
\* state stays kNew, bootstrap never getting as far as that call.
C9_BootstrapFrame ==
    /\ []C9_Inv
    /\ [][ C9_BootstrapStepOutsideInitialize =>
             UNCHANGED << initializationState, initializationStatus, shardName,
                          clusterId, configServerConnectionString,
                          globalInitCalls, hooks, roleCalls >> ]_vars

C9_Witness ==
    /\ outcome.op = "initializeShardingAwarenessIfNeeded"
    /\ outcome.pc = "isain_lookup"
    /\ outcome.status.code = "NoSuchKey"
    /\ diskDoc.kind = "malformed"
    /\ initializationState = "kError"
    /\ shardName = "shard01"

\* C10: when bootstrap returns true the state is kInitialized and the stored
\* shard name is the one of the identity bootstrap used, which is the
\* override's in read-only mode and the persisted document's otherwise;
\* getShardName returns the stored shard name, in read-only mode the
\* override's; and when the call of initializeFromShardIdentity made by
\* bootstrap fails, bootstrap returns that failure (the validation error,
\* ManualInterventionRequired, or the failure of _globalInit, which is the
\* one kept) and not true.
C10_BecameAware ==
    /\ (outcome.op = "initializeShardingAwarenessIfNeeded" /\ outcome.value = "true") =>
         /\ outcome.status = StatusOK
         /\ initializationState = "kInitialized"
         /\ shardName = outcome.id.shardName
         /\ clusterId = outcome.id.clusterId
         /\ IF storageGlobalParams.readOnly
              THEN outcome.id = serverGlobalParams.overrideShardIdentity.id
              ELSE /\ diskDoc.kind = "identity"
                   /\ outcome.id.shardName = diskDoc.id.shardName
                   /\ outcome.id.clusterId = diskDoc.id.clusterId
    /\ (outcome.op = "getShardName" /\ outcome.status.code # "Abort") =>
         /\ outcome.value = shardName
         /\ outcome.value # ""
         /\ storageGlobalParams.readOnly =>
              outcome.value = serverGlobalParams.overrideShardIdentity.id.shardName
    /\ ( /\ outcome.op = "initializeShardingAwarenessIfNeeded"
         /\ outcome.pre # "-"
         /\ outcome.status.code \notin {"OK", "Abort"} )
       => /\ outcome.value = ""
          /\ IF validate(outcome.id).code # "OK"
               THEN outcome.status = validate(outcome.id)
               ELSE IF outcome.pre = "kError"
                 THEN outcome.status.code = "ManualInterventionRequired"
                 ELSE /\ outcome.pre = "kNew"
                      /\ outcome.status = initializationStatus
                      /\ initializationState = "kError"

C10_Witness ==
    /\ outcome.op = "getShardName"
    /\ outcome.value = "shard01"
    /\ storageGlobalParams.readOnly
    /\ initializationState = "kInitialized"

\* The handles of a kind that are live.
LiveHandles(kind) ==
    BagCardinality([h \in {g \in BagToSet(handles) : g.kind = kind}
                      |-> CopiesIn(h, handles)])

C11_Inv ==
    /\ LiveHandles("donateChunk") <= 1
    /\ activeDonateChunk # NoSlot <=> LiveHandles("donateChunk") = 1
    /\ activeDonateChunk # NoSlot =>
         BagIn(Handle("donateChunk", activeDonateChunk), handles)

C11_Step ==
    /\ outcome'.op = "registerDonateChunk" =>
         IF LiveHandles("donateChunk") > 0
           THEN /\ outcome'.status.code = "ConflictingOperationInProgress"
                /\ activeDonateChunk' = activeDonateChunk
                /\ handles' = handles
           ELSE /\ outcome'.status = StatusOK
                /\ activeDonateChunk' = outcome'.value
                /\ handles' = handles (+) SetToBag({Handle("donateChunk", outcome'.value)})
    /\ outcome'.op = "~donateChunk" =>
         /\ activeDonateChunk' = NoSlot
         /\ LiveHandles("donateChunk") = 1

\* C11: at most one donate handle is live at any instant, and the donate
\* slot is held exactly while one is; registerDonateChunk called while a
\* donate handle is live fails with ConflictingOperationInProgress and
\* leaves the slot as it is; called while none is live, in particular after
\* the live one has been destroyed, it succeeds and takes the slot.
C11_SingleDonation == []C11_Inv /\ [][C11_Step]_vars

C11_Witness ==
    /\ outcome.op = "registerDonateChunk"
    /\ outcome.status.code = "ConflictingOperationInProgress"
    /\ outcome.value = "db.b"
    /\ activeDonateChunk = "db.a"
    /\ LiveHandles("donateChunk") = 1

\* The slot a registration is made in.
SlotOf(op) ==
    CASE op = "registerDonateChunk" -> activeDonateChunk
      [] op = "registerReceiveChunk" -> activeReceiveChunk
      [] op = "registerMovePrimary" -> activeMovePrimary

\* C12: a registration succeeds exactly when the slot of its own category is
\* free, whatever the two other categories hold, the same namespace
\* included, and changes no slot but its own.
C12_SlotsIndependent ==
    [][ outcome'.op \in {"registerDonateChunk", "registerReceiveChunk",
                         "registerMovePrimary"} =>
          /\ outcome'.status.code = "OK" <=> SlotOf(outcome'.op) = NoSlot
          /\ outcome'.op # "registerDonateChunk" => UNCHANGED activeDonateChunk
          /\ outcome'.op # "registerReceiveChunk" => UNCHANGED activeReceiveChunk
          /\ outcome'.op # "registerMovePrimary" => UNCHANGED activeMovePrimary ]_vars

C12_Witness ==
    /\ outcome.op = "registerReceiveChunk"
    /\ outcome.status = StatusOK
    /\ activeDonateChunk = outcome.value
    /\ activeMovePrimary = outcome.value
    /\ activeReceiveChunk = outcome.value

\* The notifications that have just gone on to the update: the calls of
\* updateShardIdentityConfigStringCB that this step has put at the call of
\* updateShardIdentityConfigString.
C13_Issued ==
    {c \in BagToSet(calls') :
       /\ c.op = "updateShardIdentityConfigStringCB"
       /\ c.pc = "usics_update"
       /\ CopiesIn(c, calls') > CopiesIn(c, calls)}

\* C13: a notification for a set whose name is not the one of the config
\* server's connection string returns without calling
\* updateShardIdentityConfigString (it ends where it started) and changes
\* nothing; a notification for the config server's set goes on to one call
\* of updateShardIdentityConfigString, which carries the new connection
\* string: the document it matches holds that string afterwards.
C13_TopologyChangeFilter ==
    [][ /\ \A cs \in NewConnectionStrings :
             ( /\ outcome'.op = "updateShardIdentityConfigStringCB"
               /\ outcome'.pc = "start"
               /\ outcome'.cs = cs )
             => /\ configServerConnectionString.setName # cs.setName
                /\ UNCHANGED << serverGlobalParams, storageGlobalParams, diskDoc,
                                initializationState, initializationStatus,
                                shardName, clusterId, configServerConnectionString,
                                globalInitCalls, hooks, roleCalls, aborted, calls >>
        /\ \A c \in C13_Issued :
             /\ configServerConnectionString.setName = c.cs.setName
             /\ calls' = calls (+) SetToBag({c})
             /\ UNCHANGED << diskDoc, initializationState, shardName, clusterId,
                             configServerConnectionString >>
        /\ ( /\ outcome'.op = "updateShardIdentityConfigStringCB"
             /\ outcome'.pc = "usics_update" )
           => /\ calls' = calls (-) SetToBag({[NewCall(outcome'.op, NoIdentity, outcome'.cs)
                                                 EXCEPT !.pc = "usics_update"]})
              /\ outcome'.value = "numMatched=1" =>
                   /\ diskDoc.kind = "identity" =>
                        diskDoc' = IdentityDoc([diskDoc.id EXCEPT
                                                  !.configsvrConnString = outcome'.cs])
              /\ outcome'.value # "numMatched=1" => UNCHANGED diskDoc ]_vars

C13_Witness ==
    /\ outcome.op = "updateShardIdentityConfigStringCB"
    /\ outcome.pc = "start"
    /\ outcome.cs.setName = "cfgB"
    /\ configServerConnectionString.setName = "cfgA"
    /\ diskDoc.kind = "identity"

\* C14 as stated: _mutex is never held while _globalInit is executing nor
\* while shutDown stops and joins the executor pool and the catalog client.
C14_MutexNotHeldAcrossIO ==
    \A c \in Busy : c.mutex => c.pc \notin {"in_globalInit", "sd_join"}

\* C15 as stated: whenever a lock-free read of the state by another thread
\* (the enabled() of canAcceptShardedCommands) returns kInitialized, the
\* shard name stored is not empty and the cluster id stored is set.
C15_InitializedImpliesIdentityStored ==
    (outcome.op = "canAcceptShardedCommands" /\ outcome.status.code = "OK")
    => (shardName # "" /\ clusterId # "unset")

C16_Inv ==
    /\ \A c \in Busy : c.pc \in {"ifsi_lock"} \cup FirstTimePositions =>
                         validate(c.id).code = "OK"
    /\ (outcome.pre # "-" /\ validate(outcome.id).code # "OK"
          /\ outcome.status.code # "Abort") => outcome.pc = "ifsi_entry"
    /\ globalInitCalls = 0 => initializationState = "kNew"

C16_Step ==
    (outcome'.pc = "ifsi_entry" /\ outcome'.status.code # "Abort")
    => /\ validate(outcome'.id).code # "OK"
       /\ outcome'.status = validate(outcome'.id)
       /\ UNCHANGED << initializationState, initializationStatus, shardName,
                       clusterId, configServerConnectionString, globalInitCalls,
                       hooks, roleCalls >>

\* C16: a call of initializeFromShardIdentity whose identity fails validation
\* returns the validation error from its entry, invoking nothing and changing
\* neither the state, the kept failure nor the stored identity; in
\* particular, found in state kNew it leaves the state kNew (the state is
\* kNew as long as _globalInit has not been invoked), so that a later call
\* with a valid identity still initializes.
C16_ValidationFailureIsNotKept == []C16_Inv /\ [][C16_Step]_vars

C16_Witness ==
    /\ rejectedInNew
    /\ initializationState = "kInitialized"
    /\ outcome.pc = "ifsi_store"
    /\ outcome.status = StatusOK
    /\ shardName = outcome.id.shardName

C17_Inv ==
    /\ Len(roleCalls.catalogCacheLoader) <= 1
    /\ Len(roleCalls.chunkSplitter) <= 1
    /\ initializationState = "kInitialized" =>
         /\ hooks.synchronousConfigChange /\ hooks.asynchronousConfigChange
         /\ Len(roleCalls.catalogCacheLoader) = 1
         /\ Len(roleCalls.chunkSplitter) = 1
         /\ roleCalls.catalogCacheLoader[1] = roleCalls.chunkSplitter[1]
    /\ initializationState = "kError" =>
         /\ ~hooks.synchronousConfigChange /\ ~hooks.asynchronousConfigChange
         /\ roleCalls.catalogCacheLoader = << >>
         /\ roleCalls.chunkSplitter = << >>

C17_Step ==
    (initializationState # "kInitialized" /\ initializationState' = "kInitialized")
    => /\ hooks.synchronousConfigChange /\ hooks.asynchronousConfigChange
       /\ Len(roleCalls.catalogCacheLoader) = 1
       /\ Len(roleCalls.chunkSplitter) = 1
       /\ UNCHANGED << hooks, roleCalls >>

\* C17: when the state becomes kInitialized the two replica set change hooks
\* are already installed and the catalog cache loader and the chunk splitter
\* have each been given the role already, once and the same flag; from then
\* on that stays so; and in state kError, that is when _globalInit has
\* failed, neither hook is installed and neither has been given a role.
C17_HooksAndRolesBeforeInitialized == []C17_Inv /\ [][C17_Step]_vars

C17_Witness ==
    /\ initializationState = "kInitialized"
    /\ roleCalls.catalogCacheLoader = << FALSE >>
    /\ roleCalls.chunkSplitter = << FALSE >>
    /\ hooks.asynchronousConfigChange
    /\ shardName = ""

\* The failures _globalInit ends with.
GlobalInitFailures ==
    {Status("HostUnreachable", ""), Status("ExceededTimeLimit", "")}

C18_Inv ==
    /\ initializationState = "kError" <=> initializationStatus \in GlobalInitFailures
    /\ initializationState # "kError" => initializationStatus = Status("InternalError", "")
    /\ outcome.status.code = "ManualInterventionRequired" =>
         /\ initializationState = "kError"
         /\ outcome.status.cause = initializationStatus.code

C18_Step ==
    /\ initializationStatus' # initializationStatus =>
         /\ initializationState = "kNew"
         /\ initializationState' = "kError"
    /\ (initializationState = "kNew" /\ initializationState' = "kError") =>
         /\ initializationStatus' \in GlobalInitFailures
         /\ \/ outcome'.pc = "in_globalInit" /\ outcome'.status = initializationStatus'
            \/ \E c \in BagToSet(calls') :
                 c.pc = "ifsi_store" /\ c.status = initializationStatus'

\* C18: the kept failure is written only in the step that takes the state
\* from kNew to kError, where it becomes the failure _globalInit returned or
\* threw, the one that call returns; no later step writes it; and a
\* ManualInterventionRequired is returned only in state kError and carries
\* the kept failure.
C18_FailureCauseWrittenOnce == []C18_Inv /\ [][C18_Step]_vars

C18_Witness ==
    /\ outcome.status = Status("ManualInterventionRequired", "HostUnreachable")
    /\ outcome.op = "initializeShardingAwarenessIfNeeded"
    /\ initializationStatus = Status("HostUnreachable", "")

\* C19 as stated: in states kNew and kError the shard name stored is empty
\* and the cluster id stored is unset, whichever way _globalInit failed.
C19_IdentityStoredOnlyOnSuccess ==
    initializationState \in {"kNew", "kError"} =>
      (shardName = "" /\ clusterId = "unset")

\* C20: updateShardIdentityConfigString returns OK when the update matched
\* no document, which is when there is none, and then writes nothing;
\* returns the failure of the update when the update throws; returns OK
\* having set the connection string when there is a document; and in every
\* case changes neither the state nor the stored shard name and cluster id.
C20_UpdateConfigStringOutcomes ==
    [][ outcome'.pc = "usics_update" =>
          /\ outcome'.op \in {"updateShardIdentityConfigString",
                              "updateShardIdentityConfigStringCB"}
          /\ UNCHANGED << initializationState, initializationStatus, shardName,
                          clusterId, configServerConnectionString, globalInitCalls >>
          /\ \/ /\ outcome'.status = Status("NotMaster", "")
                /\ outcome'.value = ""
                /\ UNCHANGED diskDoc
             \/ /\ outcome'.status = StatusOK
                /\ diskDoc.kind = "empty"
                /\ outcome'.value = "numMatched=0"
                /\ UNCHANGED diskDoc
             \/ /\ outcome'.status = StatusOK
                /\ diskDoc.kind # "empty"
                /\ outcome'.value = "numMatched=1"
                /\ diskDoc'.kind = diskDoc.kind
                /\ diskDoc.kind = "identity" =>
                     /\ diskDoc'.id.configsvrConnString = outcome'.cs
                     /\ diskDoc'.id.shardName = diskDoc.id.shardName
                     /\ diskDoc'.id.clusterId = diskDoc.id.clusterId ]_vars

C20_Witness ==
    /\ outcome.op = "updateShardIdentityConfigString"
    /\ outcome.status = StatusOK
    /\ outcome.value = "numMatched=0"
    /\ diskDoc.kind = "empty"
    /\ initializationState = "kInitialized"

\* Positions of a call inside initializeFromShardIdentity.
InitializePositions ==
    {"ifsi_lock", "in_globalInit", "ifsi_setInitialized", "ifsi_store"}

\* C21: the lock discipline of initializeShardingAwarenessIfNeeded. It runs
\* only when entered with no resource lock held (entered otherwise, the
\* process is terminated at once); the lookup of the persisted document
\* happens with the exclusive lock not held; every execution of
\* initializeFromShardIdentity it causes, to its end, happens while its
\* thread holds the global lock in mode X and no other thread holds the
\* global lock; and when it returns, with true or with a failure, its thread
\* holds no lock.
C21_BootstrapLockDiscipline ==
    /\ \A c \in Busy : c.op = "initializeShardingAwarenessIfNeeded" =>
         /\ c.pc \in {"isain_lookup", "isain_lock"} => c.lock = "none"
         /\ c.pc \in InitializePositions =>
              /\ c.lock = "X"
              /\ CopiesIn(c, calls) = 1
              /\ \A d \in Busy \ {c} : d.lock = "none"
         /\ c.pc \in {"isain_lookup", "isain_lock"} \cup InitializePositions
    /\ outcome.op = "initializeShardingAwarenessIfNeeded" =>
         /\ outcome.pc = "start" =>
              (outcome.lock # "none" <=> outcome.status = Status("Abort", "invariant"))
         /\ outcome.pc = "isain_lookup" => outcome.lock = "none"
         /\ outcome.pre # "-" <=> outcome.pc \in {"ifsi_entry"} \cup InitializePositions
         /\ outcome.pre # "-" =>
              /\ outcome.lock = "X"
              /\ \A d \in Busy : d.lock = "none"
         /\ outcome.pc \in {"start", "isain_lookup"} \cup {"ifsi_entry"} \cup InitializePositions
         /\ outcome.status.code # "Abort" => outcome.after = "none"

C21_Witness ==
    /\ outcome.op = "initializeShardingAwarenessIfNeeded"
    /\ outcome.pc = "in_globalInit"
    /\ outcome.status.code \notin {"OK", "Abort"}
    /\ outcome.lock = "X"
    /\ outcome.after = "none"
    /\ Busy # {}

====
